---- MODULE Spec2Model ----
(***************************************************************************)
(* A model of z2m-cli: the routing-analysis optimizer, the routing graph   *)
(* builders and the diagnostic engine of src/bin/z2m-cli.ts and            *)
(* src/lib/api.ts.                                                         *)
(*                                                                         *)
(* Conventions                                                             *)
(*  - A JavaScript Map is a function whose DOMAIN is the set of keys.  The *)
(*    maps of the program are filled in the order of map.nodes, so their   *)
(*    iteration order is the order of the node indices.                    *)
(*  - A node is named by its index in map.nodes; ieeeAddr and friendlyName *)
(*    are both that index (names are unique in Zigbee2MQTT).               *)
(*  - An optional field of a JavaScript object is a record field that is   *)
(*    present or absent.                                                   *)
(*  - Distances are counted in halves: calcDistance returns multiples of   *)
(*    0.5, so every distance d of the program is the integer 2*d here.     *)
(*    The comparison d < c * 0.7 is 10*(2d) < 7*(2c); the two agree on     *)
(*    every value the program can produce (IEEE doubles included).         *)
(***************************************************************************)
EXTENDS Integers, Sequences, FiniteSets, TLC

(***************************************************************************)
(* Bounds of the model.                                                    *)
(***************************************************************************)
\* routing-analysis, whole optimizer: number of nodes, and how many sector
\* and floor names (prefixes of SectorNames, FloorNames) locations draw from
OptNodes == 4
OptSectors == 2
OptFloors == 2
\* routing-analysis, candidate generation: names the locations draw from
FrontSectors == 4
FrontFloors == 3
\* routing-analysis, parent construction: length of the link list
MaxLinks == 2
\* routing graph builders: number of nodes of the map
GraphNodes == 2
\* diagnose: number of devices, and how far around a threshold the reported
\* values are drawn
MaxDevices == 2
Margin == 1
\* one operation of the client: number of messages its socket delivers
MaxMessages == 2
\* the client's timeout: number of operations issued on one client
MaxOps == 3

VARIABLES
    \* ---- the raw network map handed to the three graph consumers ----
    mapNodes,         \* map.nodes: sequence of node types
    mapLinks,         \* map.links: sequence of link records
    \* ---- network:routing-analysis ----
    raPc,             \* position in the handler
    deviceLocations,  \* Map name -> [floor, sector]
    parentOf,         \* Map name -> [parent, lqi]
    candidateMap,     \* Map name -> [currentDistance, potentialRouters]
    components,       \* conflict components still to resolve
    assignedRouting,  \* Map name -> proposed parent
    anomalies,        \* result rows of the devices with an assignment
    optimal,          \* names of the devices without one
    \* ---- network:routes and getParentRouting ----
    routesPc,         \* "idle", "start", "built" or "error"
    routesParentOf,   \* Map ieeeAddr -> [parent, lqi]
    routesChildrenOf, \* Map ieeeAddr -> sequence of [child, lqi]
    gprPc,            \* "idle", "start", "returned", or "unavailable" when
                      \* it returned without a map
    gprParentOf,      \* Map friendlyName -> [parent, lqi]
    \* ---- Z2MClient.diagnose ----
    dgPc,             \* "idle", "scan" or "returned"
    dgDevice,         \* the device of the last loop iteration, with its state
    dgScanned,        \* number of devices the loop has visited
    issues,           \* the issues array
    scanOrder,        \* history: the issues in the order the scan pushed them
    deviceSummaries,  \* the summary rows
    dgCounts,         \* routers, endDevices, coordinator, disabled
    \* ---- one operation of Z2MClient on the WebSocket it opened ----
    chKind,           \* "idle", "request", "collect", "collectDeviceStates",
                      \* "getDeviceState", "setDeviceState" or "setGroupState"
    chRequestTopic,   \* requestTopic, NoTopic when not given
    chResponseTopic,  \* responseTopic, NoTopic when not given
    chWs,             \* the socket: "connecting", "open" or "closed"
    chClosedByOp,     \* the operation has called ws.close()
    chTimer,          \* timeoutId: "armed", "cleared" or "fired"
    chResolved,       \* request's flag `resolved`
    chOutcome,        \* the promise: pending, resolved or rejected
    chResults,        \* results (collect), states, or state
    chLog,            \* history: the messages delivered to onmessage
    chErrorPending,   \* history: onerror ran while the promise was pending
    chSent,           \* history: onopen has called ws.send
    chSendTimer,      \* the timer that onopen of setDeviceState / setGroupState
                      \* arms: "none", "armed" or "fired"
    \* ---- Z2MClient.timeout and the operations that read it ----
    clTimeout,        \* this.timeout
    clOps             \* per operation: kind, position, savedTimeout, deadline

inVars == <<mapNodes, mapLinks>>

raVars == <<raPc, deviceLocations, parentOf, candidateMap, components,
            assignedRouting, anomalies, optimal>>

grVars == <<routesPc, routesParentOf, routesChildrenOf, gprPc, gprParentOf>>

dgVars == <<dgPc, dgDevice, dgScanned, issues, scanOrder, deviceSummaries,
            dgCounts>>

chVars == <<chKind, chRequestTopic, chResponseTopic, chWs, chClosedByOp,
            chTimer, chResolved, chOutcome, chResults, chLog, chErrorPending,
            chSent, chSendTimer>>

clVars == <<clTimeout, clOps>>

apiVars == <<chVars, clVars>>

vars == <<inVars, raVars, grVars, dgVars, apiVars>>

(***************************************************************************)
(* Generic helpers.                                                        *)
(***************************************************************************)
EmptyMap == <<>>

MapSet(m, k, v) == (k :> v) @@ m

Abs(x) == IF x < 0 THEN -x ELSE x

Range(s) == {s[i] : i \in 1..Len(s)}

Prefix(s, n) == {s[i] : i \in 1..(IF n < Len(s) THEN n ELSE Len(s))}

\* Array.prototype.find over the elements `hits` that satisfy the test: the
\* first of them, as a sequence of length 0 (undefined) or 1
Find(hits) == IF hits = <<>> THEN <<>> ELSE <<hits[1]>>

\* Array.prototype.sort with comparator a.key - b.key: stable (ES2019),
\* ascending.  Insertion sort that places an element after its equals.
RECURSIVE InsertByKey(_, _)
InsertByKey(sorted, x) ==
    IF sorted = <<>> THEN <<x>>
    ELSE IF x.key < sorted[1].key THEN <<x>> \o sorted
    ELSE <<sorted[1]>> \o InsertByKey(Tail(sorted), x)

RECURSIVE SortByKey(_)
SortByKey(s) ==
    IF s = <<>> THEN <<>>
    ELSE InsertByKey(SortByKey(SubSeq(s, 1, Len(s) - 1)), s[Len(s)])

(***************************************************************************)
(* network:routing-analysis -- locations and the distance model.          *)
(***************************************************************************)
\* The own keys of sectorCoords, with their grid coordinates
sectorCoords ==
    [s \in {"south-west", "south-center", "south-east",
            "center-west", "center", "center-east",
            "north-west", "north-center", "north-east"} |->
        CASE s = "south-west"   -> <<0, 0>>
          [] s = "south-center" -> <<1, 0>>
          [] s = "south-east"   -> <<2, 0>>
          [] s = "center-west"  -> <<0, 1>>
          [] s = "center"       -> <<1, 1>>
          [] s = "center-east"  -> <<2, 1>>
          [] s = "north-west"   -> <<0, 2>>
          [] s = "north-center" -> <<1, 2>>
          [] s = "north-east"   -> <<2, 2>>]

\* The own keys of floorNum, with their ranks
floorNum ==
    [f \in {"Basement", "Ground Floor", "Upper Floor"} |->
        CASE f = "Basement"     -> 0
          [] f = "Ground Floor" -> 1
          [] f = "Upper Floor"  -> 2]

\* sectorCoords and floorNum are object literals: a lookup by a key that is
\* no own key but a property of Object.prototype yields that property (a
\* function or an object), which is truthy and not nullish, so neither
\* `|| [1, 1]` nor `?? 1` replaces it.
ObjectPrototypeKeys ==
    {"constructor", "toString", "toLocaleString", "valueOf", "hasOwnProperty",
     "isPrototypeOf", "propertyIsEnumerable", "__proto__"}

\* The value of Math.abs(az - bz) * 1.5 + ... when az or bz is no number
NaN == -1

\* const [ax, ay] = sectorCoords[a.sector] || [1, 1] throws a TypeError when
\* the looked-up value is not iterable
SectorThrows(loc) == loc.sector \in ObjectPrototypeKeys

SectorXY(loc) ==
    IF loc.sector \in DOMAIN sectorCoords THEN sectorCoords[loc.sector]
    ELSE <<1, 1>>

\* floorNum[a.floor] ?? 1 is a number unless the key is inherited
FloorIsNumber(loc) == loc.floor \notin ObjectPrototypeKeys

FloorZ(loc) ==
    IF loc.floor \in DOMAIN floorNum THEN floorNum[loc.floor] ELSE 1

\* calcDistance, in halves; defined where neither sector lookup throws
calcDistance(a, b) ==
    IF FloorIsNumber(a) /\ FloorIsNumber(b)
    THEN 2 * Abs(SectorXY(a)[1] - SectorXY(b)[1])
         + 2 * Abs(SectorXY(a)[2] - SectorXY(b)[2])
         + 3 * Abs(FloorZ(a) - FloorZ(b))
    ELSE NaN

calcDistanceThrows(a, b) == SectorThrows(a) \/ SectorThrows(b)

\* currentDistance when the parent has no location: 999
UNKNOWN_PARENT_DISTANCE == 999

\* the comparison without the 0.7 factor
LessThan70Percent_NoThreshold(a, b) ==
    /\ a # NaN
    /\ b # NaN
    /\ a <= b

\* a < b * 0.7 on distances in halves; every comparison with NaN is false
LessThan70Percent(a, b) ==
    /\ a # NaN
    /\ b # NaN
    /\ 10 * a < 7 * b

(***************************************************************************)
(* network:routing-analysis -- the parent map and candidate generation.   *)
(***************************************************************************)
Nodes == 1..Len(mapNodes)

\* for (const link of map.links!) { ... parentOf.set(source, {parent, lqi}) }
RECURSIVE BuildParentOf(_, _)
BuildParentOf(links, acc) ==
    IF links = <<>> THEN acc
    ELSE LET link == Head(links)
             next == IF link.source \in Nodes /\ link.target \in Nodes
                     THEN MapSet(acc, link.source,
                                 [parent |-> link.target, lqi |-> link.lqi])
                     ELSE acc
         IN BuildParentOf(Tail(links), next)

\* the nodes of type Router or Coordinator that have a location, in order
routers ==
    SelectSeq([n \in Nodes |-> n],
              LAMBDA n : /\ mapNodes[n] \in {"Router", "Coordinator"}
                         /\ n \in DOMAIN deviceLocations)

\* the nodes the candidate loop analyses: not the Coordinator, with a
\* location and with a parent
Analysed ==
    {n \in Nodes : /\ mapNodes[n] # "Coordinator"
                   /\ n \in DOMAIN deviceLocations
                   /\ n \in DOMAIN parentOf}

CurrentDistance(n) ==
    LET p == parentOf[n].parent
    IN IF p \in DOMAIN deviceLocations
       THEN calcDistance(deviceLocations[n], deviceLocations[p])
       ELSE 2 * UNKNOWN_PARENT_DISTANCE

\* routers.filter(not parent, not self).map(distance)
\*        .filter(distance < currentDistance * 0.7).sort(by distance)
PotentialRouters(n) ==
    LET others == SelectSeq(routers,
                            LAMBDA r : r # parentOf[n].parent /\ r # n)
        mapped == [i \in 1..Len(others) |->
                      [router |-> others[i],
                       key |-> calcDistance(deviceLocations[n],
                                            deviceLocations[others[i]])]]
        kept == SelectSeq(mapped,
                          LAMBDA r : LessThan70Percent(r.key, CurrentDistance(n)))
        sorted == SortByKey(kept)
    IN [i \in 1..Len(sorted) |->
           [router |-> sorted[i].router, distance |-> sorted[i].key]]

\* a calcDistance call of the candidate loop throws
CandidatesThrow ==
    \E n \in Analysed :
        \/ /\ parentOf[n].parent \in DOMAIN deviceLocations
           /\ calcDistanceThrows(deviceLocations[n],
                                 deviceLocations[parentOf[n].parent])
        \/ \E i \in 1..Len(routers) :
              /\ routers[i] # parentOf[n].parent
              /\ routers[i] # n
              /\ calcDistanceThrows(deviceLocations[n],
                                    deviceLocations[routers[i]])

BuildCandidateMap ==
    [n \in Analysed |->
        [currentDistance |-> CurrentDistance(n),
         potentialRouters |-> PotentialRouters(n)]]

(***************************************************************************)
(* network:routing-analysis -- conflict detection.                        *)
(***************************************************************************)
\* the keys of a Map filled in node order, as a sequence
Keys(m) == SelectSeq([n \in Nodes |-> n], LAMBDA n : n \in DOMAIN m)

\* routerCandidate?.potentialRouters.some(r => r.router === device)
Wants(cm, d, r) ==
    /\ d \in DOMAIN cm
    /\ \E i \in 1..Len(cm[d].potentialRouters) :
          cm[d].potentialRouters[i].router = r

\* ConflictSet without the reciprocity test: every candidate that is itself
\* analysed counts as a conflict
ConflictSet_OneSided(cm, d) ==
    LET hits == SelectSeq(cm[d].potentialRouters,
                          LAMBDA r : r.router \in DOMAIN cm)
    IN [i \in 1..Len(hits) |-> hits[i].router]

\* conflictSet of a device: the candidates that want the device back, in the
\* order of its candidate list (a Set keeps insertion order)
ConflictSet(cm, d) ==
    LET hits == SelectSeq(cm[d].potentialRouters,
                          LAMBDA r : Wants(cm, r.router, d))
    IN [i \in 1..Len(hits) |-> hits[i].router]

\* conflicts: only the devices with a non-empty conflict set get a key
Conflicts(cm) ==
    [d \in {x \in DOMAIN cm : ConflictSet(cm, x) # <<>>} |-> ConflictSet(cm, d)]

\* the breadth-first traversal of one component:
\*   while (queue.length > 0) { d = queue.shift(); if visited continue; ... }
RECURSIVE Traverse(_, _, _, _)
Traverse(conflicts, queue, visited, component) ==
    IF queue = <<>> THEN [visited |-> visited, component |-> component]
    ELSE LET d == Head(queue)
         IN IF d \in visited
            THEN Traverse(conflicts, Tail(queue), visited, component)
            ELSE LET seen == visited \cup {d}
                     nbrs == IF d \in DOMAIN conflicts THEN conflicts[d] ELSE <<>>
                     push == SelectSeq(nbrs, LAMBDA c : c \notin seen)
                 IN Traverse(conflicts, Tail(queue) \o push, seen,
                             Append(component, d))

\* for (const device of conflicts.keys()) { if visited continue; ... }
RECURSIVE FindComponents(_, _, _, _)
FindComponents(conflicts, keys, visited, found) ==
    IF keys = <<>> THEN found
    ELSE IF Head(keys) \in visited
         THEN FindComponents(conflicts, Tail(keys), visited, found)
         ELSE LET t == Traverse(conflicts, <<Head(keys)>>, visited, <<>>)
              IN FindComponents(conflicts, Tail(keys), t.visited,
                                Append(found, t.component))

Components(cm) ==
    FindComponents(Conflicts(cm), Keys(Conflicts(cm)), {}, <<>>)

(***************************************************************************)
(* network:routing-analysis -- the cycle and reciprocity check.           *)
(***************************************************************************)
\* let current = assignedRouting.get(r.router); const seen = new Set();
\* while (current && !seen.has(current)) {
\*   if (current === device) return false; seen.add(current); current = ... }
RECURSIVE ChainReaches(_, _, _, _)
ChainReaches(assigned, current, seen, device) ==
    IF current \notin DOMAIN assigned \/ assigned[current] \in seen
    THEN FALSE
    ELSE IF assigned[current] = device THEN TRUE
    ELSE ChainReaches(assigned, assigned[current],
                      seen \cup {assigned[current]}, device)

\* the predicate of potentialRouters.find / .filter: the candidate is not
\* assigned to the device, and the chain from it does not reach the device
ValidRouter(assigned, device, r) ==
    /\ ~(r \in DOMAIN assigned /\ assigned[r] = device)
    /\ ~ChainReaches(assigned, r, {}, device)

FirstValid(cm, assigned, device) ==
    Find(SelectSeq(cm[device].potentialRouters,
                   LAMBDA r : ValidRouter(assigned, device, r.router)))

(***************************************************************************)
(* network:routing-analysis -- resolution of one conflict component.      *)
(***************************************************************************)
\* candX.currentDistance - (candX.potentialRouters.find(r => r.router === y)
\*                          ?.distance || candX.currentDistance)
\* a distance of 0 is falsy, and so is replaced by currentDistance
ImprovementTo(cm, x, y) ==
    LET hit == Find(SelectSeq(cm[x].potentialRouters, LAMBDA r : r.router = y))
        dist == IF hit = <<>> \/ hit[1].distance = 0
                THEN cm[x].currentDistance
                ELSE hit[1].distance
    IN cm[x].currentDistance - dist

\* candX.potentialRouters.find(r => r.router !== y)
NextBest(cm, x, y) == Find(SelectSeq(cm[x].potentialRouters, LAMBDA r : r.router # y))

NextImprovement(cm, x, y) ==
    IF NextBest(cm, x, y) = <<>> THEN 0
    ELSE cm[x].currentDistance - NextBest(cm, x, y)[1].distance

\* PairStrategy with the two swap branches tested in the other order
PairStrategy_Option2First(cm, a, b) ==
    LET option1 == ImprovementTo(cm, a, b) + NextImprovement(cm, b, a)
        option2 == ImprovementTo(cm, b, a) + NextImprovement(cm, a, b)
        option3 == NextImprovement(cm, a, b) + NextImprovement(cm, b, a)
    IN IF option2 >= option1 /\ option2 >= option3 /\ option2 > 0 THEN 2
       ELSE IF option1 >= option2 /\ option1 >= option3 /\ option1 > 0 THEN 1
       ELSE 3

\* PairStrategy when a swap needs a total strictly above the other two
PairStrategy_TiesToNeither(cm, a, b) ==
    LET option1 == ImprovementTo(cm, a, b) + NextImprovement(cm, b, a)
        option2 == ImprovementTo(cm, b, a) + NextImprovement(cm, a, b)
        option3 == NextImprovement(cm, a, b) + NextImprovement(cm, b, a)
    IN IF option1 > option2 /\ option1 > option3 /\ option1 > 0 THEN 1
       ELSE IF option2 > option1 /\ option2 > option3 /\ option2 > 0 THEN 2
       ELSE 3

\* the if / else if / else over option1, option2, option3
PairStrategy(cm, a, b) ==
    LET option1 == ImprovementTo(cm, a, b) + NextImprovement(cm, b, a)
        option2 == ImprovementTo(cm, b, a) + NextImprovement(cm, a, b)
        option3 == NextImprovement(cm, a, b) + NextImprovement(cm, b, a)
    IN IF option1 >= option2 /\ option1 >= option3 /\ option1 > 0 THEN 1
       ELSE IF option2 >= option1 /\ option2 >= option3 /\ option2 > 0 THEN 2
       ELSE 3

SetIfFound(assigned, device, found) ==
    IF found = <<>> THEN assigned ELSE MapSet(assigned, device, found[1].router)

ResolvePair(cm, assigned, a, b) ==
    LET aNextBest == NextBest(cm, a, b)
        bNextBest == NextBest(cm, b, a)
    IN CASE PairStrategy(cm, a, b) = 1 ->
               SetIfFound(MapSet(assigned, a, b), b, bNextBest)
         [] PairStrategy(cm, a, b) = 2 ->
               SetIfFound(MapSet(assigned, b, a), a, aNextBest)
         [] OTHER ->
               SetIfFound(SetIfFound(assigned, a, aNextBest), b, bNextBest)

\* currentDistance - (potentialRouters[0]?.distance || currentDistance)
BestImprovement(cm, d) ==
    LET list == cm[d].potentialRouters
        dist == IF list = <<>> \/ list[1].distance = 0
                THEN cm[d].currentDistance
                ELSE list[1].distance
    IN cm[d].currentDistance - dist

\* component.sort((a, b) => bImprove - aImprove): stable, descending
GreedyOrder(cm, component) ==
    LET keyed == [i \in 1..Len(component) |->
                     [device |-> component[i],
                      key |-> 0 - BestImprovement(cm, component[i])]]
        sorted == SortByKey(keyed)
    IN [i \in 1..Len(sorted) |-> sorted[i].device]

\* for (const { device, candidate } of sorted) { validRouter = ...find(...);
\*   if (validRouter) assignedRouting.set(device, validRouter.router) }
RECURSIVE AssignInOrder(_, _, _)
AssignInOrder(cm, assigned, devices) ==
    IF devices = <<>> THEN assigned
    ELSE AssignInOrder(cm,
                       SetIfFound(assigned, Head(devices),
                                  FirstValid(cm, assigned, Head(devices))),
                       Tail(devices))

ResolveGreedy(cm, assigned, component) ==
    AssignInOrder(cm, assigned, GreedyOrder(cm, component))

(***************************************************************************)
(* network:routing-analysis -- propagation and the result.                *)
(***************************************************************************)
\* PropagatePass that takes the first candidate without the validity check
RECURSIVE PropagatePass_Unchecked(_, _, _)
PropagatePass_Unchecked(cm, assigned, devices) ==
    IF devices = <<>> THEN assigned
    ELSE LET d == Head(devices)
             next == IF d \in DOMAIN assigned THEN assigned
                     ELSE SetIfFound(assigned, d, Find(cm[d].potentialRouters))
         IN PropagatePass_Unchecked(cm, next, Tail(devices))

\* PropagatePass without the skip of devices that already have an assignment
RECURSIVE PropagatePass_Reassign(_, _, _)
PropagatePass_Reassign(cm, assigned, devices) ==
    IF devices = <<>> THEN assigned
    ELSE LET d == Head(devices)
             next == SetIfFound(assigned, d, FirstValid(cm, assigned, d))
         IN PropagatePass_Reassign(cm, next, Tail(devices))

\* one pass of the while (changed) loop: for (const [device, candidate] of
\* candidateMap) { if (assignedRouting.has(device)) continue; ... }
RECURSIVE PropagatePass(_, _, _)
PropagatePass(cm, assigned, devices) ==
    IF devices = <<>> THEN assigned
    ELSE LET d == Head(devices)
             next == IF d \in DOMAIN assigned THEN assigned
                     ELSE SetIfFound(assigned, d, FirstValid(cm, assigned, d))
         IN PropagatePass(cm, next, Tail(devices))

\* betterOptions: the candidates that pass the check, at most three
BetterOptions(cm, assigned, d) ==
    LET valid == SelectSeq(cm[d].potentialRouters,
                           LAMBDA r : ValidRouter(assigned, d, r.router))
    IN SubSeq(valid, 1, IF Len(valid) < 3 THEN Len(valid) ELSE 3)

BuildAnomalies(cm, assigned) ==
    LET devs == SelectSeq(Keys(cm), LAMBDA d : d \in DOMAIN assigned)
    IN [i \in 1..Len(devs) |->
           [device |-> devs[i],
            currentRouter |-> parentOf[devs[i]].parent,
            currentDistance |-> cm[devs[i]].currentDistance,
            currentLqi |-> parentOf[devs[i]].lqi,
            betterOptions |-> BetterOptions(cm, assigned, devs[i])]]

\* BuildOptimal without the test for an assignment
BuildOptimal_All(cm, assigned) == Keys(cm)

BuildOptimal(cm, assigned) ==
    SelectSeq(Keys(cm), LAMBDA d : d \notin DOMAIN assigned)

(***************************************************************************)
(* network:routing-analysis -- the handler, step by step.                 *)
(***************************************************************************)
\* const parentOf = new Map(); for (const link of map.links!) ...
RA_BuildParentOf ==
    /\ raPc = "start"
    /\ parentOf' = BuildParentOf(mapLinks, EmptyMap)
    /\ raPc' = "parents"
    /\ UNCHANGED <<deviceLocations, candidateMap, components,
                   assignedRouting, anomalies, optimal>>
    /\ UNCHANGED <<inVars, grVars, dgVars, apiVars>>

\* const routers = ...; for (const node of map.nodes!) candidateMap.set(...)
\* an exception of calcDistance ends the handler
RA_GenerateCandidates ==
    /\ raPc = "parents"
    /\ IF CandidatesThrow
       THEN raPc' = "threw" /\ candidateMap' = candidateMap
       ELSE raPc' = "candidates" /\ candidateMap' = BuildCandidateMap
    /\ UNCHANGED <<deviceLocations, parentOf, components, assignedRouting,
                   anomalies, optimal>>
    /\ UNCHANGED <<inVars, grVars, dgVars, apiVars>>

\* Step 1 and the connected components of Step 2
RA_DetectConflicts ==
    /\ raPc = "candidates"
    /\ components' = Components(candidateMap)
    /\ raPc' = "resolve"
    /\ UNCHANGED <<deviceLocations, parentOf, candidateMap, assignedRouting,
                   anomalies, optimal>>
    /\ UNCHANGED <<inVars, grVars, dgVars, apiVars>>

\* for (const component of components) if (component.length === 2) ...
RA_ResolvePair ==
    /\ raPc = "resolve"
    /\ components # <<>>
    /\ Len(Head(components)) = 2
    /\ assignedRouting' = ResolvePair(candidateMap, assignedRouting,
                                      Head(components)[1], Head(components)[2])
    /\ components' = Tail(components)
    /\ UNCHANGED <<raPc, deviceLocations, parentOf, candidateMap, anomalies,
                   optimal>>
    /\ UNCHANGED <<inVars, grVars, dgVars, apiVars>>

\* ... else if (component.length > 2) ...
RA_ResolveGreedy ==
    /\ raPc = "resolve"
    /\ components # <<>>
    /\ Len(Head(components)) > 2
    /\ assignedRouting' = ResolveGreedy(candidateMap, assignedRouting,
                                        Head(components))
    /\ components' = Tail(components)
    /\ UNCHANGED <<raPc, deviceLocations, parentOf, candidateMap, anomalies,
                   optimal>>
    /\ UNCHANGED <<inVars, grVars, dgVars, apiVars>>

\* one iteration of while (changed) { changed = false; for (...) ... }
RA_Propagate ==
    /\ raPc \in {"resolve", "propagate"}
    /\ components = <<>>
    /\ LET next == PropagatePass(candidateMap, assignedRouting,
                                 Keys(candidateMap))
       IN /\ assignedRouting' = next
          /\ raPc' = IF next = assignedRouting THEN "results" ELSE "propagate"
    /\ UNCHANGED <<deviceLocations, parentOf, candidateMap, components,
                   anomalies, optimal>>
    /\ UNCHANGED <<inVars, grVars, dgVars, apiVars>>

\* Step 4: anomalies and optimal
RA_BuildResults ==
    /\ raPc = "results"
    /\ anomalies' = BuildAnomalies(candidateMap, assignedRouting)
    /\ optimal' = BuildOptimal(candidateMap, assignedRouting)
    /\ raPc' = "done"
    /\ UNCHANGED <<deviceLocations, parentOf, candidateMap, components,
                   assignedRouting>>
    /\ UNCHANGED <<inVars, grVars, dgVars, apiVars>>

(***************************************************************************)
(* network:routing-analysis -- the inputs.                                *)
(***************************************************************************)
\* sector and floor strings of device descriptions: grid names, names that
\* are no grid name, and a name that Object.prototype defines
SectorNames ==
    <<"center-west", "center", "west", "constructor", "north-east",
      "south-west", "south-center", "south-east", "center-east",
      "north-west", "north-center">>

FloorNames ==
    <<"Ground", "Upper Floor", "constructor", "Basement", "Ground Floor">>

Locations(nSectors, nFloors) ==
    [floor : Prefix(FloorNames, nFloors), sector : Prefix(SectorNames, nSectors)]

\* parseLocation returns null unless both floor and sector are present
Unlocated == [floor |-> "", sector |-> ""]

Located(f) == [n \in {x \in DOMAIN f : f[x] # Unlocated} |-> f[n]]

ParentReport(s, t) ==
    [source |-> s, target |-> t, lqi |-> 80, relationship |-> 0, depth |-> 1]

GraphIdle ==
    /\ routesPc = "idle"
    /\ routesParentOf = EmptyMap
    /\ routesChildrenOf = EmptyMap
    /\ gprPc = "idle"
    /\ gprParentOf = EmptyMap

DiagIdle ==
    /\ dgPc = "idle"
    /\ dgDevice = EmptyMap
    /\ dgScanned = 0
    /\ issues = <<>>
    /\ scanOrder = <<>>
    /\ deviceSummaries = <<>>
    /\ dgCounts = [routers |-> 0, endDevices |-> 0, coordinator |-> 0,
                   disabled |-> 0]

\* no operation of the client has been started
ChannelIdle ==
    /\ chKind = "idle"
    /\ chRequestTopic = ""
    /\ chResponseTopic = ""
    /\ chWs = "none"
    /\ chClosedByOp = FALSE
    /\ chTimer = "none"
    /\ chResolved = FALSE
    /\ chOutcome = [status |-> "pending"]
    /\ chResults = <<>>
    /\ chLog = <<>>
    /\ chErrorPending = FALSE
    /\ chSent = FALSE
    /\ chSendTimer = "none"

ClientIdle ==
    /\ clTimeout = 0
    /\ clOps = <<>>

ApiIdle == ChannelIdle /\ ClientIdle

RAFresh ==
    /\ GraphIdle
    /\ DiagIdle
    /\ ApiIdle
    /\ raPc = "start"
    /\ parentOf = EmptyMap
    /\ candidateMap = EmptyMap
    /\ components = <<>>
    /\ assignedRouting = EmptyMap
    /\ anomalies = <<>>
    /\ optimal = <<>>

\* the optimizer's inputs: OptNodes routers, each with a location and with
\* one ParentReport link to another node
InitOpt ==
    /\ mapNodes = [n \in 1..OptNodes |-> "Router"]
    /\ \E locs \in [1..OptNodes -> Locations(OptSectors, OptFloors)] :
          deviceLocations = locs
    /\ \E parents \in [1..OptNodes -> 1..OptNodes] :
          /\ \A n \in 1..OptNodes : parents[n] # n
          /\ mapLinks = [n \in 1..OptNodes |-> ParentReport(n, parents[n])]
    /\ RAFresh

\* candidate generation's inputs: a device, its parent and one more node, of
\* any type, each at any location of the pool or without location
InitLocs ==
    /\ \E types \in [1..3 -> {"Coordinator", "Router", "EndDevice"}] :
          mapNodes = types
    /\ \E locs \in [1..3 -> Locations(FrontSectors, FrontFloors) \cup {Unlocated}] :
          deviceLocations = Located(locs)
    /\ mapLinks = <<ParentReport(1, 2)>>
    /\ RAFresh

\* the relationship and depth a raw link can carry; both are optional
LinkKinds ==
    { [relationship |-> 0, depth |-> 1],
      [relationship |-> 1, depth |-> 1],
      [relationship |-> 1, depth |-> 254],
      [relationship |-> 1, depth |-> 255],
      [relationship |-> 1],
      [relationship |-> 2, depth |-> 1],
      [relationship |-> 3, depth |-> 255],
      [relationship |-> 4, depth |-> 1],
      [depth |-> 1] }

\* links between two different addresses of `addrs`, with an lqi of `lqis`
Links(addrs, lqis) ==
    {kind @@ [source |-> st[1], target |-> st[2], lqi |-> q] :
        kind \in LinkKinds,
        st \in {x \in addrs \X addrs : x[1] # x[2]},
        q \in lqis}

SeqsUpTo(S, n) == UNION {[1..k -> S] : k \in 0..n}

\* the parent map's inputs: three located routers and up to MaxLinks raw
\* links of any kind; address 4 belongs to no node
InitLinks ==
    /\ mapNodes = <<"Router", "Router", "Router">>
    /\ deviceLocations =
          <<[floor |-> "Ground", sector |-> "center-west"],
            [floor |-> "Ground", sector |-> "center"],
            [floor |-> "Upper Floor", sector |-> "center"]>>
    /\ \E links \in SeqsUpTo(Links(1..4, {80}), MaxLinks) : mapLinks = links
    /\ RAFresh

NextFront ==
    \/ RA_BuildParentOf
    \/ RA_GenerateCandidates

SpecRAFront == (InitLocs \/ InitLinks) /\ [][NextFront]_vars

NextRA ==
    \/ RA_BuildParentOf
    \/ RA_GenerateCandidates
    \/ RA_DetectConflicts
    \/ RA_ResolvePair
    \/ RA_ResolveGreedy
    \/ RA_Propagate
    \/ RA_BuildResults

SpecRA == InitOpt /\ [][NextRA]_vars

\* the optimizer's inputs with nodes it does not analyse: a Coordinator and
\* OptNodes - 1 routers or end devices, each node with or without a
\* location, each device with one ParentReport link to another node or
\* with none
InitMixed ==
    /\ \E types \in [2..OptNodes -> {"Router", "EndDevice"}] :
          mapNodes = [n \in 1..OptNodes |->
                         IF n = 1 THEN "Coordinator" ELSE types[n]]
    /\ \E locs \in [1..OptNodes ->
                       Locations(OptSectors, OptFloors) \cup {Unlocated}] :
          /\ locs[1] \in {Unlocated, [floor |-> "Ground", sector |-> "center-west"]}
          /\ deviceLocations = Located(locs)
    /\ \E parents \in [2..OptNodes -> 1..OptNodes] :
          mapLinks = SelectSeq([i \in 1..(OptNodes - 1) |->
                                   ParentReport(i + 1, parents[i + 1])],
                               LAMBDA l : l.source # l.target)
    /\ RAFresh

SpecRAMixed == InitMixed /\ [][NextRA]_vars

\* the while (changed) loop is synchronous code: a pass that can run, runs
SpecRALive == SpecRA /\ WF_vars(RA_Propagate)

(***************************************************************************)
(* Properties of network:routing-analysis.                                *)
(***************************************************************************)
\* the node reached from x by following k assignments, 0 when the chain ends
RECURSIVE Follow(_, _, _)
Follow(assigned, x, k) ==
    IF k = 0 THEN x
    ELSE IF x \notin DOMAIN assigned THEN 0
    ELSE Follow(assigned, assigned[x], k - 1)

OnCycle(assigned, d) ==
    \E k \in 1..Cardinality(DOMAIN assigned) : Follow(assigned, d, k) = d

\* C3: when the optimizer has finished, following assignedRouting from the
\* assigned parent of a device never leads back to the device
C3_NoCycle ==
    raPc = "done" => \A d \in DOMAIN assignedRouting : ~OnCycle(assignedRouting, d)

\* d's candidate list is exactly <<r>>
OnlyCandidate(cm, d, r) ==
    /\ Len(cm[d].potentialRouters) = 1
    /\ cm[d].potentialRouters[1].router = r

\* a and b are each other's only candidate and gain the same by the swap;
\* a comes first in candidateMap
TiedPair(cm, a, b) ==
    /\ a \in DOMAIN cm
    /\ b \in DOMAIN cm
    /\ a < b
    /\ OnlyCandidate(cm, a, b)
    /\ OnlyCandidate(cm, b, a)
    /\ cm[a].currentDistance - cm[a].potentialRouters[1].distance
         = cm[b].currentDistance - cm[b].potentialRouters[1].distance

\* C9: of two devices that are each other's only candidate, with equal
\* improvement, the final assignment routes the first through the second
\* and leaves the second unassigned
C9_TiedPairOneDirection ==
    raPc = "done" =>
        \A a, b \in Nodes :
            TiedPair(candidateMap, a, b) =>
                /\ a \in DOMAIN assignedRouting
                /\ assignedRouting[a] = b
                /\ b \notin DOMAIN assignedRouting

C9_Witness ==
    /\ raPc = "done"
    /\ \E a, b \in Nodes :
          /\ TiedPair(candidateMap, a, b)
          /\ a \in DOMAIN assignedRouting
          /\ assignedRouting[a] = b

\* the assignment reached by propagation alone: passes from `assigned` until
\* a pass changes nothing
RECURSIVE PropagateToFixedPoint(_, _)
PropagateToFixedPoint(cm, assigned) ==
    LET next == PropagatePass(cm, assigned, Keys(cm))
    IN IF next = assigned THEN assigned ELSE PropagateToFixedPoint(cm, next)

NoMutualCandidates(cm) ==
    ~\E a, b \in DOMAIN cm : Wants(cm, a, b) /\ Wants(cm, b, a)

\* C10: when no two devices list each other, the result is the one of
\* candidate generation, propagation and result building alone
C10_NoConflictSameResult ==
    (raPc = "done" /\ NoMutualCandidates(candidateMap)) =>
        LET alone == PropagateToFixedPoint(candidateMap, EmptyMap)
        IN /\ assignedRouting = alone
           /\ anomalies = BuildAnomalies(candidateMap, alone)
           /\ optimal = BuildOptimal(candidateMap, alone)

C10_Witness ==
    /\ raPc = "done"
    /\ NoMutualCandidates(candidateMap)
    /\ assignedRouting # EmptyMap
    /\ optimal # <<>>

\* a link that reports a forwarding path: relationship ParentReport (0), or
\* ChildReport (1) with a depth below 255
QualifyingLink(link) ==
    /\ "relationship" \in DOMAIN link
    /\ \/ link.relationship = 0
       \/ /\ link.relationship = 1
          /\ "depth" \in DOMAIN link
          /\ link.depth < 255

\* C2: the current parent that routing-analysis records for a device comes
\* from a qualifying link from the device to that parent
C2_ParentFromQualifyingLink ==
    raPc \in {"parents", "candidates"} =>
        \A d \in DOMAIN parentOf :
            \E i \in 1..Len(mapLinks) :
                /\ mapLinks[i].source = d
                /\ mapLinks[i].target = parentOf[d].parent
                /\ QualifyingLink(mapLinks[i])

\* the distance model of the specification, in halves: a name outside the
\* grid or the floor list counts as 1
GridX(sector) ==
    CASE sector \in {"south-west", "center-west", "north-west"} -> 0
      [] sector \in {"south-east", "center-east", "north-east"} -> 2
      [] OTHER -> 1

GridY(sector) ==
    CASE sector \in {"south-west", "south-center", "south-east"} -> 0
      [] sector \in {"north-west", "north-center", "north-east"} -> 2
      [] OTHER -> 1

FloorRank(floor) ==
    CASE floor = "Basement" -> 0
      [] floor = "Upper Floor" -> 2
      [] OTHER -> 1

ManhattanFloor(a, b) ==
    2 * Abs(GridX(a.sector) - GridX(b.sector))
    + 2 * Abs(GridY(a.sector) - GridY(b.sector))
    + 3 * Abs(FloorRank(a.floor) - FloorRank(b.floor))

\* C7: currentDistance of an analysed device is the Manhattan+floor distance
\* to its parent, and 999 when the parent has no location
C7_CurrentDistanceFormula ==
    raPc = "candidates" =>
        \A d \in DOMAIN candidateMap :
            candidateMap[d].currentDistance =
                IF parentOf[d].parent \in DOMAIN deviceLocations
                THEN ManhattanFloor(deviceLocations[d],
                                    deviceLocations[parentOf[d].parent])
                ELSE 2 * 999

\* the scenario of C8: A (node 1) at Ground / center-west, its parent R1
\* (node 2) a router at Ground / center, R2 (node 3) a router at Ground / west
ScenarioC8 ==
    /\ mapNodes[1] # "Coordinator"
    /\ mapNodes[2] = "Router"
    /\ mapNodes[3] = "Router"
    /\ DOMAIN deviceLocations = {1, 2, 3}
    /\ deviceLocations[1] = [floor |-> "Ground", sector |-> "center-west"]
    /\ deviceLocations[2] = [floor |-> "Ground", sector |-> "center"]
    /\ deviceLocations[3] = [floor |-> "Ground", sector |-> "west"]
    /\ mapLinks = <<ParentReport(1, 2)>>

\* C8 as stated: distance(A,R1) = 1, distance(A,R2) = 0, and R2 is among A's
\* candidates
C8_AsStated ==
    (raPc = "candidates" /\ ScenarioC8) =>
        /\ candidateMap[1].currentDistance = 2 * 1
        /\ calcDistance(deviceLocations[1], deviceLocations[3]) = 0
        /\ Wants(candidateMap, 1, 3)

\* C8 as amended: "west" is no grid name and counts as the centre, so
\* distance(A,R1) = 1 and distance(A,R2) = 1, and A has no candidate
C8_WestIsCentre ==
    (raPc = "candidates" /\ ScenarioC8) =>
        /\ 1 \in DOMAIN candidateMap
        /\ candidateMap[1].currentDistance = 2 * 1
        /\ calcDistance(deviceLocations[1], deviceLocations[3]) = 2 * 1
        /\ candidateMap[1].potentialRouters = <<>>

C8_Witness == raPc = "candidates" /\ ScenarioC8

(***************************************************************************)
(* network:routes and getParentRouting -- the routing graph builders.     *)
(***************************************************************************)
\* const isParentLink = link.relationship === 0
isParentLink(link) ==
    /\ "relationship" \in DOMAIN link
    /\ link.relationship = 0

\* isChildLink without the depth test
isChildLink_AnyDepth(link) ==
    /\ "relationship" \in DOMAIN link
    /\ link.relationship = 1

\* const isChildLink = link.relationship === 1 && link.depth !== undefined
\*                     && link.depth < 255
isChildLink(link) ==
    /\ "relationship" \in DOMAIN link
    /\ link.relationship = 1
    /\ "depth" \in DOMAIN link
    /\ link.depth < 255

\* RoutesLink when a source that has a parent already keeps it
RoutesLink_KeepFirst(graph, link) ==
    IF link.source \notin Nodes \/ link.target \notin Nodes THEN graph
    ELSE IF link.source \in DOMAIN graph.parentOf THEN graph
    ELSE IF isParentLink(link) \/ isChildLink(link)
    THEN [parentOf |->
              MapSet(graph.parentOf, link.source,
                     [parent |-> link.target, lqi |-> link.lqi]),
          childrenOf |->
              MapSet(graph.childrenOf, link.target,
                     <<[child |-> link.source, lqi |-> link.lqi]>>)]
    ELSE graph

\* the body of network:routes' loop over map.links
RoutesLink(graph, link) ==
    IF link.source \notin Nodes \/ link.target \notin Nodes THEN graph
    ELSE IF isParentLink(link) \/ isChildLink(link)
    THEN LET before == IF link.target \in DOMAIN graph.childrenOf
                       THEN graph.childrenOf[link.target]
                       ELSE <<>>
         IN [parentOf |->
                 MapSet(graph.parentOf, link.source,
                        [parent |-> link.target, lqi |-> link.lqi]),
             childrenOf |->
                 MapSet(graph.childrenOf, link.target,
                        Append(before, [child |-> link.source,
                                        lqi |-> link.lqi]))]
    ELSE graph

RECURSIVE RoutesBuild(_, _)
RoutesBuild(links, graph) ==
    IF links = <<>> THEN graph
    ELSE RoutesBuild(Tail(links), RoutesLink(graph, Head(links)))

\* the body of getParentRouting's loop over map.links
GetParentRoutingLink(acc, link) ==
    IF link.source \notin Nodes \/ link.target \notin Nodes THEN acc
    ELSE IF "relationship" \in DOMAIN link /\ link.relationship = 0
    THEN MapSet(acc, link.source, [parent |-> link.target, lqi |-> link.lqi])
    ELSE IF /\ "relationship" \in DOMAIN link
            /\ link.relationship = 1
            /\ "depth" \in DOMAIN link
            /\ link.depth < 255
    THEN MapSet(acc, link.source, [parent |-> link.target, lqi |-> link.lqi])
    ELSE acc

RECURSIVE GetParentRoutingBuild(_, _)
GetParentRoutingBuild(links, acc) ==
    IF links = <<>> THEN acc
    ELSE GetParentRoutingBuild(Tail(links),
                               GetParentRoutingLink(acc, Head(links)))

\* network:routes on a map that has nodes
GR_Routes ==
    /\ routesPc = "start"
    /\ Len(mapNodes) > 0
    /\ LET graph == RoutesBuild(mapLinks, [parentOf |-> EmptyMap,
                                           childrenOf |-> EmptyMap])
       IN /\ routesParentOf' = graph.parentOf
          /\ routesChildrenOf' = graph.childrenOf
    /\ routesPc' = "built"
    /\ UNCHANGED <<gprPc, gprParentOf>>
    /\ UNCHANGED <<inVars, raVars, dgVars, apiVars>>

\* if (... || map.nodes.length === 0) error('No network map data available')
GR_RoutesNoData ==
    /\ routesPc = "start"
    /\ Len(mapNodes) = 0
    /\ routesPc' = "error"
    /\ UNCHANGED <<routesParentOf, routesChildrenOf, gprPc, gprParentOf>>
    /\ UNCHANGED <<inVars, raVars, dgVars, apiVars>>

\* getParentRouting on an available map
GR_GetParentRouting ==
    /\ gprPc = "start"
    /\ gprParentOf' = GetParentRoutingBuild(mapLinks, EmptyMap)
    /\ gprPc' = "returned"
    /\ UNCHANGED <<routesPc, routesParentOf, routesChildrenOf>>
    /\ UNCHANGED <<inVars, raVars, dgVars, apiVars>>

\* getParentRouting when getNetworkMap rejects or the response holds no map:
\* the empty map is returned
GR_GetParentRoutingNoMap ==
    /\ gprPc = "start"
    /\ gprParentOf' = EmptyMap
    /\ gprPc' = "unavailable"
    /\ UNCHANGED <<routesPc, routesParentOf, routesChildrenOf>>
    /\ UNCHANGED <<inVars, raVars, dgVars, apiVars>>

RAIdle ==
    /\ raPc = "idle"
    /\ deviceLocations = EmptyMap
    /\ parentOf = EmptyMap
    /\ candidateMap = EmptyMap
    /\ components = <<>>
    /\ assignedRouting = EmptyMap
    /\ anomalies = <<>>
    /\ optimal = <<>>

\* a map of up to GraphNodes nodes and up to MaxLinks raw links of any kind;
\* address GraphNodes + 1 belongs to no node
InitGraph ==
    /\ \E n \in 0..GraphNodes : mapNodes = [i \in 1..n |-> "Router"]
    /\ \E links \in SeqsUpTo(Links(1..(GraphNodes + 1), {40, 80}), MaxLinks) :
          mapLinks = links
    /\ routesPc = "start"
    /\ routesParentOf = EmptyMap
    /\ routesChildrenOf = EmptyMap
    /\ gprPc = "start"
    /\ gprParentOf = EmptyMap
    /\ RAIdle
    /\ DiagIdle
    /\ ApiIdle

NextGraph ==
    \/ GR_Routes
    \/ GR_RoutesNoData
    \/ GR_GetParentRouting
    \/ GR_GetParentRoutingNoMap

SpecGraph == InitGraph /\ [][NextGraph]_vars

\* C1: an edge source -> target of the graph of network:routes (parentOf,
\* childrenOf) or of getParentRouting (parentOf) comes from a qualifying
\* link source -> target
EdgeFromQualifyingLink(s, t) ==
    \E i \in 1..Len(mapLinks) :
        /\ mapLinks[i].source = s
        /\ mapLinks[i].target = t
        /\ QualifyingLink(mapLinks[i])

C1_EdgesOnlyFromQualifyingLinks ==
    /\ routesPc = "built" =>
          /\ \A s \in DOMAIN routesParentOf :
                EdgeFromQualifyingLink(s, routesParentOf[s].parent)
          /\ \A t \in DOMAIN routesChildrenOf :
                \A j \in 1..Len(routesChildrenOf[t]) :
                    EdgeFromQualifyingLink(routesChildrenOf[t][j].child, t)
    /\ gprPc \in {"returned", "unavailable"} =>
          \A s \in DOMAIN gprParentOf :
              EdgeFromQualifyingLink(s, gprParentOf[s].parent)

\* both builders have run on a map that holds a link they kept and a link
\* between two nodes that they had to skip
C1_Witness ==
    /\ routesPc = "built"
    /\ gprPc = "returned"
    /\ routesParentOf # EmptyMap
    /\ gprParentOf # EmptyMap
    /\ \E i \in 1..Len(mapLinks) :
          /\ mapLinks[i].source \in Nodes
          /\ mapLinks[i].target \in Nodes
          /\ ~QualifyingLink(mapLinks[i])

(***************************************************************************)
(* Z2MClient.diagnose.                                                     *)
(***************************************************************************)
LQI_CRITICAL == 30
LQI_LOW == 50
BATTERY_CRITICAL == 15
BATTERY_LOW == 25
STALE_HOURS == 24

\* const severityOrder = { critical: 0, warning: 1, info: 2 }
severityOrder(severity) ==
    CASE severity = "critical" -> 0
      [] severity = "warning" -> 1
      [] severity = "info" -> 2

\* the interview check
InterviewIssues(device, name) ==
    IF ~device.interview_completed
    THEN <<[device |-> name, type |-> "interview_incomplete",
            severity |-> "critical"]>>
    ELSE <<>>

\* the LQI check with the two thresholds tested in the other order
LqiIssues_LowFirst(device, name) ==
    IF "linkquality" \notin DOMAIN device THEN <<>>
    ELSE IF device.linkquality < LQI_LOW
    THEN <<[device |-> name, type |-> "lqi_low", severity |-> "warning",
            value |-> device.linkquality]>>
    ELSE IF device.linkquality < LQI_CRITICAL
    THEN <<[device |-> name, type |-> "lqi_critical", severity |-> "critical",
            value |-> device.linkquality]>>
    ELSE <<>>

\* if (lqi !== undefined) { if (lqi < LQI_CRITICAL) ... else if (lqi < LQI_LOW) ... }
LqiIssues(device, name) ==
    IF "linkquality" \notin DOMAIN device THEN <<>>
    ELSE IF device.linkquality < LQI_CRITICAL
    THEN <<[device |-> name, type |-> "lqi_critical", severity |-> "critical",
            value |-> device.linkquality]>>
    ELSE IF device.linkquality < LQI_LOW
    THEN <<[device |-> name, type |-> "lqi_low", severity |-> "warning",
            value |-> device.linkquality]>>
    ELSE <<>>

\* the battery check with two independent ifs instead of else if
BatteryIssues_NoElse(device, name) ==
    IF "battery" \notin DOMAIN device THEN <<>>
    ELSE (IF device.battery < BATTERY_CRITICAL
          THEN <<[device |-> name, type |-> "battery_critical",
                  severity |-> "critical", value |-> device.battery]>>
          ELSE <<>>)
         \o
         (IF device.battery < BATTERY_LOW
          THEN <<[device |-> name, type |-> "battery_low",
                  severity |-> "warning", value |-> device.battery]>>
          ELSE <<>>)

\* if (battery !== undefined) { if (battery < BATTERY_CRITICAL) ...
\*                              else if (battery < BATTERY_LOW) ... }
BatteryIssues(device, name) ==
    IF "battery" \notin DOMAIN device THEN <<>>
    ELSE IF device.battery < BATTERY_CRITICAL
    THEN <<[device |-> name, type |-> "battery_critical",
            severity |-> "critical", value |-> device.battery]>>
    ELSE IF device.battery < BATTERY_LOW
    THEN <<[device |-> name, type |-> "battery_low", severity |-> "warning",
            value |-> device.battery]>>
    ELSE <<>>

\* the stale check without the power source test
StaleIssues_AnyPower(device, name) ==
    IF /\ "last_seen_age" \in DOMAIN device
       /\ device.last_seen_age > STALE_HOURS * 7
    THEN <<[device |-> name, type |-> "stale", severity |-> "warning",
            value |-> device.last_seen_age]>>
    ELSE <<>>

\* if (lastSeen && device.power_source === 'Battery') {
\*   if (hoursSince > STALE_HOURS * 7) ... }
\* last_seen is modelled by its age in hours at the time of the scan
StaleIssues(device, name) ==
    IF /\ "last_seen_age" \in DOMAIN device
       /\ device.power_source = "Battery"
       /\ device.last_seen_age > STALE_HOURS * 7
    THEN <<[device |-> name, type |-> "stale", severity |-> "warning",
            value |-> device.last_seen_age]>>
    ELSE <<>>

\* DeviceIssues when a check runs only if the checks before it found nothing
DeviceIssues_FirstOnly(device, name) ==
    LET all == InterviewIssues(device, name) \o LqiIssues(device, name)
               \o BatteryIssues(device, name) \o StaleIssues(device, name)
    IN IF all = <<>> THEN <<>> ELSE <<all[1]>>

\* the four checks of one loop iteration, in the order of the code
DeviceIssues(device, name) ==
    InterviewIssues(device, name) \o LqiIssues(device, name)
    \o BatteryIssues(device, name) \o StaleIssues(device, name)

\* issues.sort by severity without a stable order: equal severities are
\* left in reverse
SortIssues_Unstable(list) ==
    LET rev == [i \in 1..Len(list) |-> list[Len(list) + 1 - i]]
        keyed == [i \in 1..Len(rev) |->
                     [issue |-> rev[i], key |-> severityOrder(rev[i].severity)]]
        sorted == SortByKey(keyed)
    IN [i \in 1..Len(sorted) |-> sorted[i].issue]

\* issues.sort((a, b) => severityOrder[a.severity] - severityOrder[b.severity])
SortIssues(list) ==
    LET keyed == [i \in 1..Len(list) |->
                     [issue |-> list[i], key |-> severityOrder(list[i].severity)]]
        sorted == SortByKey(keyed)
    IN [i \in 1..Len(sorted) |-> sorted[i].issue]

\* what getDevices and collectDeviceStates report of one device; a state
\* field that was not collected is absent
LqiReadings ==
    {EmptyMap} \cup {[linkquality |-> v] :
        v \in ((LQI_CRITICAL - Margin)..(LQI_CRITICAL + Margin - 1))
              \cup ((LQI_LOW - Margin)..(LQI_LOW + Margin - 1))}

BatteryReadings ==
    {EmptyMap} \cup {[battery |-> v] :
        v \in ((BATTERY_CRITICAL - Margin)..(BATTERY_CRITICAL + Margin - 1))
              \cup {20}
              \cup ((BATTERY_LOW - Margin)..(BATTERY_LOW + Margin - 1))}

LastSeenReadings ==
    {EmptyMap} \cup {[last_seen_age |-> v] :
        v \in (STALE_HOURS * 7 - Margin + 1)..(STALE_HOURS * 7 + Margin)}

Devices ==
    {[type |-> t, disabled |-> d, interview_completed |-> i,
      power_source |-> p] @@ lq @@ bt @@ ls :
        t \in {"Coordinator", "Router", "EndDevice"},
        d \in BOOLEAN, i \in BOOLEAN, p \in {"Battery", "Mains"},
        lq \in LqiReadings, bt \in BatteryReadings, ls \in LastSeenReadings}

\* one iteration of for (const device of devices)
DG_ScanDevice ==
    /\ dgPc = "scan"
    /\ dgScanned < MaxDevices
    /\ \E device \in Devices :
          LET name == dgScanned + 1
              skip == device.type = "Coordinator" \/ device.disabled
              found == IF skip THEN <<>> ELSE DeviceIssues(device, name)
          IN /\ dgDevice' = device
             /\ dgCounts' =
                   IF device.type = "Coordinator"
                   THEN [dgCounts EXCEPT !.coordinator = @ + 1]
                   ELSE IF device.disabled
                   THEN [dgCounts EXCEPT !.disabled = @ + 1]
                   ELSE IF device.type = "Router"
                   THEN [dgCounts EXCEPT !.routers = @ + 1]
                   ELSE [dgCounts EXCEPT !.endDevices = @ + 1]
             /\ deviceSummaries' =
                   IF skip THEN deviceSummaries
                   ELSE Append(deviceSummaries,
                               [name |-> name, type |-> device.type])
             /\ issues' = issues \o found
             /\ scanOrder' = scanOrder \o found
    /\ dgScanned' = dgScanned + 1
    /\ UNCHANGED dgPc
    /\ UNCHANGED <<inVars, raVars, grVars, apiVars>>

\* after the loop: issues.sort(...) and return
DG_SortAndReturn ==
    /\ dgPc = "scan"
    /\ issues' = SortIssues(issues)
    /\ dgPc' = "returned"
    /\ UNCHANGED <<dgDevice, dgScanned, scanOrder, deviceSummaries, dgCounts>>
    /\ UNCHANGED <<inVars, raVars, grVars, apiVars>>

InitDiag ==
    /\ mapNodes = <<>>
    /\ mapLinks = <<>>
    /\ RAIdle
    /\ GraphIdle
    /\ ApiIdle
    /\ dgPc = "scan"
    /\ dgDevice = EmptyMap
    /\ dgScanned = 0
    /\ issues = <<>>
    /\ scanOrder = <<>>
    /\ deviceSummaries = <<>>
    /\ dgCounts = [routers |-> 0, endDevices |-> 0, coordinator |-> 0,
                   disabled |-> 0]

NextDiag ==
    \/ DG_ScanDevice
    \/ DG_SortAndReturn

SpecDiag == InitDiag /\ [][NextDiag]_vars

(***************************************************************************)
(* Properties of diagnose.                                                 *)
(***************************************************************************)
OfSeverity(list, severity) ==
    SelectSeq(list, LAMBDA i : i.severity = severity)

\* the position of a check within one loop iteration
CheckOrder(type) ==
    CASE type = "interview_incomplete" -> 1
      [] type \in {"lqi_critical", "lqi_low"} -> 2
      [] type \in {"battery_critical", "battery_low"} -> 3
      [] type = "stale" -> 4

SeverityRank(severity) ==
    CASE severity = "critical" -> 0
      [] severity = "warning" -> 1
      [] severity = "info" -> 2

\* C4: in the returned list every critical issue precedes every warning,
\* which precedes every info issue, and the issues of one severity are in
\* the order of the scan: by device, and within a device interview, LQI,
\* battery, stale
C4_SeverityOrderStable ==
    dgPc = "returned" =>
        /\ \A i, j \in 1..Len(issues) :
              i < j => SeverityRank(issues[i].severity)
                         <= SeverityRank(issues[j].severity)
        /\ \A sev \in {"critical", "warning", "info"} :
              OfSeverity(issues, sev) = OfSeverity(scanOrder, sev)
        /\ \A i, j \in 1..Len(scanOrder) :
              i < j =>
                  \/ scanOrder[i].device < scanOrder[j].device
                  \/ /\ scanOrder[i].device = scanOrder[j].device
                     /\ CheckOrder(scanOrder[i].type)
                          < CheckOrder(scanOrder[j].type)

\* the sort had to move an issue, and two devices raised the same severity
C4_Witness ==
    /\ dgPc = "returned"
    /\ issues # scanOrder
    /\ \E i, j \in 1..Len(issues) :
          /\ issues[i].severity = issues[j].severity
          /\ issues[i].device # issues[j].device

\* the last scanned device is an enabled non-Coordinator
ScannedEnabledDevice ==
    /\ dgPc \in {"scan", "returned"}
    /\ dgScanned >= 1
    /\ dgDevice.type # "Coordinator"
    /\ ~dgDevice.disabled

\* how many issues of `type` the list holds for the last scanned device
IssueCount(type) ==
    Len(SelectSeq(issues, LAMBDA i : i.device = dgScanned /\ i.type = type))

\* C5: a reported battery value b raises exactly one battery_critical and no
\* battery_low when b < 15, exactly one battery_low and no battery_critical
\* when 15 <= b < 25, and no battery issue when b >= 25
C5_BatteryThresholds ==
    (ScannedEnabledDevice /\ "battery" \in DOMAIN dgDevice) =>
        /\ IssueCount("battery_critical") = IF dgDevice.battery < 15 THEN 1 ELSE 0
        /\ IssueCount("battery_low") =
              IF dgDevice.battery >= 15 /\ dgDevice.battery < 25 THEN 1 ELSE 0

C5_Witness ==
    /\ ScannedEnabledDevice
    /\ "battery" \in DOMAIN dgDevice
    /\ dgDevice.battery = 14
    /\ IssueCount("battery_critical") = 1
    /\ dgPc = "returned"

\* C6: a reported link quality q raises lqi_critical, a critical issue, iff
\* q < 30, lqi_low, a warning, iff 30 <= q < 50, and never both
C6_LqiThresholds ==
    (ScannedEnabledDevice /\ "linkquality" \in DOMAIN dgDevice) =>
        /\ IssueCount("lqi_critical") = IF dgDevice.linkquality < 30 THEN 1 ELSE 0
        /\ IssueCount("lqi_low") =
              IF dgDevice.linkquality >= 30 /\ dgDevice.linkquality < 50
              THEN 1 ELSE 0
        /\ IssueCount("lqi_critical") + IssueCount("lqi_low") <= 1
        /\ \A i \in 1..Len(issues) :
              /\ issues[i].type = "lqi_critical" => issues[i].severity = "critical"
              /\ issues[i].type = "lqi_low" => issues[i].severity = "warning"

C6_Witness ==
    /\ ScannedEnabledDevice
    /\ "linkquality" \in DOMAIN dgDevice
    /\ dgDevice.linkquality = 30
    /\ IssueCount("lqi_low") = 1
    /\ dgPc = "returned"

(***************************************************************************)
(* Z2MClient -- one operation and the WebSocket it opened.                 *)
(***************************************************************************)
\* an optional topic argument that was not given, and data.topic of a
\* message without topic: both are falsy
NoTopic == ""

REQUEST_TOPIC == "bridge/request/devices"

BridgeTopics == {"bridge/devices", "bridge/state"}

\* the name argument of getDeviceState, and the topic of that device's state
DeviceTopic == "lamp"

\* data.topic?.startsWith('bridge/')
StartsWithBridge(topic) == topic \in BridgeTopics

\* data.payload: two objects and a string
Payloads == {[type |-> "object", id |-> 1], [type |-> "object", id |-> 2],
             [type |-> "string", id |-> 3]}

\* event.data: text that JSON.parse rejects, or a message with a topic (or
\* none) and a payload
Messages ==
    {[parses |-> FALSE]} \cup
    {[parses |-> TRUE, topic |-> t, payload |-> p] :
        t \in BridgeTopics \cup {DeviceTopic, NoTopic}, p \in Payloads}

Resolved(value) == [status |-> "resolved", value |-> value]

Rejected(error) == [status |-> "rejected", error |-> error]

\* resolve / reject of a promise: only the first call settles it
Settle(outcome, new) == IF outcome.status = "pending" THEN new ELSE outcome

ClearTimeout(timer) == IF timer = "armed" THEN "cleared" ELSE timer

\* RequestMatches with the response topic ignored
RequestMatches_AnyBridge(requestTopic, responseTopic, m) ==
    m.parses /\ StartsWithBridge(m.topic)

\* request's onmessage: the two branches that settle the promise
RequestMatches(requestTopic, responseTopic, m) ==
    /\ m.parses
    /\ \/ responseTopic # NoTopic /\ m.topic = responseTopic
       \/ /\ responseTopic = NoTopic
          /\ requestTopic # NoTopic
          /\ StartsWithBridge(m.topic)

\* the filter argument of collect: the state messages of one device
CollectFilter(m) == m.topic = DeviceTopic

\* the messages a collection keeps
Collects(kind, m) ==
    /\ m.parses
    /\ CASE kind = "collect" -> CollectFilter(m)
         [] kind = "collectDeviceStates" ->
                /\ m.topic # NoTopic
                /\ ~StartsWithBridge(m.topic)
                /\ m.payload.type = "object"
         [] OTHER -> FALSE

\* Collected when collectDeviceStates keeps the first payload of a topic
Collected_KeepFirst(kind, results, m) ==
    IF kind = "collect" THEN Append(results, m.payload)
    ELSE IF m.topic \in DOMAIN results THEN results
    ELSE MapSet(results, m.topic, m.payload)

\* results.push(data.payload) / states[data.topic] = data.payload
Collected(kind, results, m) ==
    IF kind = "collect" THEN Append(results, m.payload)
    ELSE MapSet(results, m.topic, m.payload)

\* setDeviceState and setGroupState: the same handlers, the command goes to
\* `${name}/set` or `${nameOrId}/set`
SetKinds == {"setDeviceState", "setGroupState"}

\* TimeoutOutcome when every timer callback rejects
TimeoutOutcome_Rejects(kind, results) == Rejected("timeout")

\* what the setTimeout callback settles the promise with; resolve() of the
\* set operations carries no value
TimeoutOutcome(kind, results) ==
    IF kind = "request" THEN Rejected("timeout") ELSE Resolved(results)

\* ErrorOutcome of an onerror that cancels the timer and settles nothing
ErrorOutcome_Silent(kind, results) == [status |-> "pending"]

\* what ws.onerror settles the promise with; getDeviceState resolves null
ErrorOutcome(kind, results) ==
    CASE kind \in {"request", "collect"} \cup SetKinds -> Rejected("transport")
      [] kind = "collectDeviceStates" -> Resolved(results)
      [] kind = "getDeviceState" -> Resolved(<<>>)

\* ws.onopen: the request, if any, is sent; the set operations send their
\* command and arm setTimeout(..., 1000)
CH_Open ==
    /\ chKind # "idle"
    /\ chWs = "connecting"
    /\ chWs' = "open"
    /\ chSent' = \/ chKind \in SetKinds
                 \/ chKind \in {"request", "collect"} /\ chRequestTopic # NoTopic
    /\ chSendTimer' = IF chKind \in SetKinds THEN "armed" ELSE chSendTimer
    /\ UNCHANGED <<chKind, chRequestTopic, chResponseTopic, chClosedByOp,
                   chTimer, chResolved, chOutcome, chResults, chLog,
                   chErrorPending>>
    /\ UNCHANGED <<inVars, raVars, grVars, dgVars, clVars>>

\* ws.onmessage
CH_Message ==
    /\ chKind # "idle"
    /\ chWs = "open"
    /\ Len(chLog) < MaxMessages
    /\ \E m \in Messages :
          /\ chLog' = Append(chLog, m)
          /\ CASE chKind = "request"
                    /\ RequestMatches(chRequestTopic, chResponseTopic, m) ->
                      /\ chResolved' = TRUE
                      /\ chTimer' = ClearTimeout(chTimer)
                      /\ chWs' = "closed"
                      /\ chClosedByOp' = TRUE
                      /\ chOutcome' = Settle(chOutcome, Resolved(m.payload))
                      /\ UNCHANGED chResults
               [] chKind = "getDeviceState" /\ m.parses
                    /\ m.topic = DeviceTopic ->
                      /\ chResults' = <<m.payload>>
                      /\ chTimer' = ClearTimeout(chTimer)
                      /\ chWs' = "closed"
                      /\ chClosedByOp' = TRUE
                      /\ chOutcome' = Settle(chOutcome, Resolved(<<m.payload>>))
                      /\ UNCHANGED chResolved
               [] Collects(chKind, m) ->
                      /\ chResults' = Collected(chKind, chResults, m)
                      /\ UNCHANGED <<chResolved, chTimer, chWs, chClosedByOp,
                                     chOutcome>>
               [] OTHER ->
                      UNCHANGED <<chResolved, chTimer, chWs, chClosedByOp,
                                  chOutcome, chResults>>
    /\ UNCHANGED <<chKind, chRequestTopic, chResponseTopic, chErrorPending,
                   chSent, chSendTimer>>
    /\ UNCHANGED <<inVars, raVars, grVars, dgVars, clVars>>

\* ws.onerror.  No handler closes the socket; the runtime may have closed
\* the failing connection or not.
CH_Error ==
    /\ chKind # "idle"
    /\ chWs \in {"connecting", "open"}
    /\ chErrorPending' = (chErrorPending \/ chOutcome.status = "pending")
    /\ IF chKind = "request" /\ chResolved
       THEN UNCHANGED <<chResolved, chTimer, chOutcome>>
       ELSE /\ chResolved' = (chKind = "request")
            /\ chTimer' = ClearTimeout(chTimer)
            /\ chOutcome' = Settle(chOutcome, ErrorOutcome(chKind, chResults))
    /\ chWs' \in {chWs, "closed"}
    /\ UNCHANGED <<chKind, chRequestTopic, chResponseTopic, chClosedByOp,
                   chResults, chLog, chSent, chSendTimer>>
    /\ UNCHANGED <<inVars, raVars, grVars, dgVars, clVars>>

\* the peer closes the connection; only request sets ws.onclose
CH_PeerClose ==
    /\ chKind # "idle"
    /\ chWs \in {"connecting", "open"}
    /\ chWs' = "closed"
    /\ IF chKind = "request"
       THEN /\ chTimer' = ClearTimeout(chTimer)
            /\ chOutcome' = IF chResolved THEN chOutcome
                            ELSE Settle(chOutcome, Rejected("closed"))
       ELSE UNCHANGED <<chTimer, chOutcome>>
    /\ UNCHANGED <<chKind, chRequestTopic, chResponseTopic, chClosedByOp,
                   chResolved, chResults, chLog, chErrorPending, chSent,
                   chSendTimer>>
    /\ UNCHANGED <<inVars, raVars, grVars, dgVars, clVars>>

\* the setTimeout callback
CH_Timeout ==
    /\ chKind # "idle"
    /\ chTimer = "armed"
    /\ chTimer' = "fired"
    /\ IF chKind = "request" /\ chResolved
       THEN UNCHANGED <<chResolved, chWs, chClosedByOp, chOutcome>>
       ELSE /\ chResolved' = (chKind = "request")
            /\ chWs' = "closed"
            /\ chClosedByOp' = TRUE
            /\ chOutcome' = Settle(chOutcome, TimeoutOutcome(chKind, chResults))
    /\ UNCHANGED <<chKind, chRequestTopic, chResponseTopic, chResults, chLog,
                   chErrorPending, chSent, chSendTimer>>
    /\ UNCHANGED <<inVars, raVars, grVars, dgVars, clVars>>

\* the callback of the timer armed in onopen of setDeviceState / setGroupState:
\* clearTimeout(timeoutId); ws.close(); resolve()
CH_SendTimeout ==
    /\ chKind \in SetKinds
    /\ chSendTimer = "armed"
    /\ chSendTimer' = "fired"
    /\ chTimer' = ClearTimeout(chTimer)
    /\ chWs' = "closed"
    /\ chClosedByOp' = TRUE
    /\ chOutcome' = Settle(chOutcome, Resolved(<<>>))
    /\ UNCHANGED <<chKind, chRequestTopic, chResponseTopic, chResolved,
                   chResults, chLog, chErrorPending, chSent>>
    /\ UNCHANGED <<inVars, raVars, grVars, dgVars, clVars>>

\* new WebSocket(this.wsUrl) and setTimeout(...): an operation has started
InitChannel ==
    /\ mapNodes = <<>>
    /\ mapLinks = <<>>
    /\ RAIdle
    /\ GraphIdle
    /\ DiagIdle
    /\ chKind \in {"request", "collect", "collectDeviceStates",
                   "getDeviceState"} \cup SetKinds
    /\ chRequestTopic \in
          IF chKind \in {"request", "collect"}
          THEN {NoTopic, REQUEST_TOPIC} ELSE {NoTopic}
    /\ chResponseTopic \in
          IF chKind = "request" THEN {NoTopic, "bridge/devices"} ELSE {NoTopic}
    /\ chWs = "connecting"
    /\ chClosedByOp = FALSE
    /\ chTimer = "armed"
    /\ chResolved = FALSE
    /\ chOutcome = [status |-> "pending"]
    /\ chResults = <<>>
    /\ chLog = <<>>
    /\ chErrorPending = FALSE
    /\ chSent = FALSE
    /\ chSendTimer = "none"
    /\ ClientIdle

NextChannel ==
    \/ CH_Open
    \/ CH_Message
    \/ CH_Error
    \/ CH_PeerClose
    \/ CH_Timeout
    \/ CH_SendTimeout

SpecChannel == InitChannel /\ [][NextChannel]_vars

\* timers fire: a callback that setTimeout armed and no clearTimeout
\* cancelled is run by the event loop
SpecChannelLive ==
    SpecChannel /\ WF_vars(CH_Timeout) /\ WF_vars(CH_SendTimeout)

(***************************************************************************)
(* Properties of one operation.                                            *)
(***************************************************************************)
Settled == chOutcome.status # "pending"

\* C11: a timed collection whose window elapses without a matching message
\* resolves with an empty result, and no timed collection ever rejects with a
\* timeout error
C11_EmptyCollectionResolves ==
    chKind \in {"collect", "collectDeviceStates"} =>
        /\ chOutcome # Rejected("timeout")
        /\ (chTimer = "fired" /\ \A i \in 1..Len(chLog) :
                                     ~Collects(chKind, chLog[i]))
              => chOutcome = Resolved(<<>>)

\* the window of a collection elapsed after messages that it did not keep
C11_Witness ==
    /\ chKind = "collectDeviceStates"
    /\ chTimer = "fired"
    /\ Len(chLog) = 2
    /\ \A i \in 1..Len(chLog) : ~Collects(chKind, chLog[i])
    /\ chOutcome = Resolved(<<>>)

\* C12: once the promise of an operation has settled, the operation has
\* closed the WebSocket it opened
C12_ClosedByOperation == Settled => chClosedByOp

\* the message a request waits for, as specified: the response topic, or any
\* bridge/ topic when no response topic is given
ExpectedAsStated(m) ==
    /\ m.parses
    /\ IF chResponseTopic # NoTopic THEN m.topic = chResponseTopic
       ELSE StartsWithBridge(m.topic)

\* the message a request waits for: as above, but without a response topic
\* only a request that sent a request topic accepts a bridge/ message
ExpectedByRequest(m) ==
    /\ ExpectedAsStated(m)
    /\ chResponseTopic = NoTopic => chRequestTopic # NoTopic

\* how a request answers the expected messages `hits` among the delivered
\* ones, as long as no channel error was reported: the first one resolves the request with its
\* payload, nothing else resolves it, and an elapsed timeout rejects it
RequestAnswers(hits) ==
    chKind = "request" =>
        /\ chOutcome.status = "resolved" =>
              hits # <<>> /\ chOutcome.value = hits[1].payload
        /\ (hits # <<>> /\ ~chErrorPending) =>
              chOutcome = Resolved(hits[1].payload)
        /\ chTimer = "fired" => chOutcome = Rejected("timeout")
        /\ chOutcome = Rejected("timeout") => hits = <<>>

C14_ErrorFailsOperation == chErrorPending => chOutcome = Rejected("transport")

(***************************************************************************)
(* Z2MClient -- this.timeout and the operations that read it.              *)
(***************************************************************************)
\* this.timeout = options.timeout || 10000
DEFAULT_TIMEOUT == 10000

\* the timeout argument of getNetworkMap; 0 when it is not given
CustomTimeouts == {60000, 30000}

\* request(): the timer is armed with this.timeout as it is at the call
CL_Request ==
    /\ Len(clOps) < MaxOps
    /\ clOps' = Append(clOps, [kind |-> "request", custom |-> 0,
                               pc |-> "waiting", savedTimeout |-> 0,
                               deadline |-> clTimeout])
    /\ UNCHANGED clTimeout
    /\ UNCHANGED <<inVars, raVars, grVars, dgVars, chVars>>

\* getNetworkMap(timeout) up to its await: savedTimeout = this.timeout;
\* if (timeout) this.timeout = timeout; this.request(...)
CL_GetNetworkMap ==
    /\ Len(clOps) < MaxOps
    /\ \E timeout \in CustomTimeouts \cup {0} :
          LET armedWith == IF timeout # 0 THEN timeout ELSE clTimeout
          IN /\ clTimeout' = armedWith
             /\ clOps' = Append(clOps, [kind |-> "getNetworkMap",
                                        custom |-> timeout, pc |-> "waiting",
                                        savedTimeout |-> clTimeout,
                                        deadline |-> armedWith])
    /\ UNCHANGED <<inVars, raVars, grVars, dgVars, chVars>>

\* the request of an operation settles; getNetworkMap's finally block runs:
\* this.timeout = savedTimeout
CL_Settle ==
    /\ \E i \in 1..Len(clOps) :
          /\ clOps[i].pc = "waiting"
          /\ clOps' = [clOps EXCEPT ![i].pc = "done"]
          /\ clTimeout' = IF clOps[i].kind = "getNetworkMap"
                          THEN clOps[i].savedTimeout ELSE clTimeout
    /\ UNCHANGED <<inVars, raVars, grVars, dgVars, chVars>>

\* new Z2MClient(options) without a timeout option
InitClient ==
    /\ mapNodes = <<>>
    /\ mapLinks = <<>>
    /\ RAIdle
    /\ GraphIdle
    /\ DiagIdle
    /\ ChannelIdle
    /\ clTimeout = DEFAULT_TIMEOUT
    /\ clOps = <<>>

NextClient ==
    \/ CL_Request
    \/ CL_GetNetworkMap
    \/ CL_Settle

SpecClient == InitClient /\ [][NextClient]_vars

\* C15: every operation runs with the deadline configured for it, its own
\* timeout argument or else the client's constructed timeout, and when all
\* operations have completed this.timeout is the constructed value again
C15_OwnDeadline ==
    /\ \A i \in 1..Len(clOps) :
          clOps[i].deadline = IF clOps[i].custom # 0 THEN clOps[i].custom
                              ELSE DEFAULT_TIMEOUT
    /\ (\A i \in 1..Len(clOps) : clOps[i].pc = "done")
          => clTimeout = DEFAULT_TIMEOUT

(***************************************************************************)
(* Properties of diagnose: the stale check and the skipped devices.        *)
(***************************************************************************)
\* the last scanned device is a Coordinator or disabled
ScannedSkippedDevice ==
    /\ dgPc \in {"scan", "returned"}
    /\ dgScanned >= 1
    /\ dgDevice.type = "Coordinator" \/ dgDevice.disabled

\* C16: a device gets a stale issue, a warning, iff it is an enabled
\* non-Coordinator on battery power with a last_seen whose age exceeds 168
\* hours; an age of exactly 168 hours and a mains device raise none
C16_StaleOnlyBatteryOverSevenDays ==
    (dgPc \in {"scan", "returned"} /\ dgScanned >= 1) =>
        /\ IssueCount("stale") =
              IF /\ ScannedEnabledDevice
                 /\ dgDevice.power_source = "Battery"
                 /\ "last_seen_age" \in DOMAIN dgDevice
                 /\ dgDevice.last_seen_age > 168
              THEN 1 ELSE 0
        /\ \A i \in 1..Len(issues) :
              issues[i].type = "stale" => issues[i].severity = "warning"

\* a mains device last seen 169 hours ago was scanned after a battery device
\* that raised a stale issue
C16_Witness ==
    /\ ScannedEnabledDevice
    /\ dgScanned = 2
    /\ dgDevice.power_source = "Mains"
    /\ "last_seen_age" \in DOMAIN dgDevice
    /\ dgDevice.last_seen_age = 169
    /\ \E i \in 1..Len(issues) : issues[i].type = "stale"

\* rows of deviceSummaries for the last scanned device
SummaryRows ==
    Len(SelectSeq(deviceSummaries, LAMBDA r : r.name = dgScanned))

\* issues of any type for the last scanned device
DeviceIssueCount ==
    Len(SelectSeq(issues, LAMBDA i : i.device = dgScanned))

\* C17: a Coordinator or disabled device raises no issue and gets no summary
\* row; an enabled non-Coordinator gets one row and each of the four checks
\* decides on its own, so the device's issues are the sum of the four
C17_SkippedAndIndependentChecks ==
    /\ ScannedSkippedDevice => DeviceIssueCount = 0 /\ SummaryRows = 0
    /\ ScannedEnabledDevice =>
          /\ SummaryRows = 1
          /\ IssueCount("interview_incomplete") =
                IF dgDevice.interview_completed THEN 0 ELSE 1
          /\ IssueCount("lqi_critical") + IssueCount("lqi_low") =
                IF /\ "linkquality" \in DOMAIN dgDevice
                   /\ dgDevice.linkquality < 50
                THEN 1 ELSE 0
          /\ IssueCount("battery_critical") + IssueCount("battery_low") =
                IF "battery" \in DOMAIN dgDevice /\ dgDevice.battery < 25
                THEN 1 ELSE 0
          /\ IssueCount("stale") =
                IF /\ dgDevice.power_source = "Battery"
                   /\ "last_seen_age" \in DOMAIN dgDevice
                   /\ dgDevice.last_seen_age > 168
                THEN 1 ELSE 0
          /\ DeviceIssueCount =
                IssueCount("interview_incomplete") + IssueCount("lqi_critical")
                + IssueCount("lqi_low") + IssueCount("battery_critical")
                + IssueCount("battery_low") + IssueCount("stale")

\* a disabled device with bad telemetry was skipped after an enabled device
\* that raised four issues
C17_Witness ==
    /\ ScannedSkippedDevice
    /\ dgScanned = 2
    /\ dgDevice.disabled
    /\ ~dgDevice.interview_completed
    /\ "battery" \in DOMAIN dgDevice
    /\ dgDevice.battery < 15
    /\ Len(issues) = 4
    /\ \A i \in 1..Len(issues) : issues[i].device = 1
    /\ Len(deviceSummaries) = 1

(***************************************************************************)
(* Properties of the routing graph builders: which link decides.           *)
(***************************************************************************)
\* the positions of the qualifying links from s whose two ends are nodes
DecidingLinks(s) ==
    {i \in 1..Len(mapLinks) :
        /\ mapLinks[i].source = s
        /\ mapLinks[i].source \in Nodes
        /\ mapLinks[i].target \in Nodes
        /\ QualifyingLink(mapLinks[i])}

LastOf(S) == CHOOSE i \in S : \A j \in S : j <= i

\* parentOf holds exactly the sources that have a deciding link, each with
\* the target and lqi of its last deciding link
ParentOfLastDecidingLink(parents) ==
    /\ DOMAIN parents = {s \in 1..(GraphNodes + 1) : DecidingLinks(s) # {}}
    /\ \A s \in DOMAIN parents :
          LET last == mapLinks[LastOf(DecidingLinks(s))]
          IN /\ parents[s].parent = last.target
             /\ parents[s].lqi = last.lqi

\* C18: in both graph builders parentOf[s] is defined iff a qualifying link
\* from s has both ends in the node set, and holds the target and signal
\* quality of the last such link; other links change nothing
C18_LastQualifyingLinkWins ==
    /\ routesPc = "built" => ParentOfLastDecidingLink(routesParentOf)
    /\ gprPc = "returned" => ParentOfLastDecidingLink(gprParentOf)

\* both builders have run on two qualifying links from the same source that
\* differ in signal quality
C18_Witness ==
    /\ routesPc = "built"
    /\ gprPc = "returned"
    /\ Len(mapLinks) = 2
    /\ DecidingLinks(mapLinks[1].source) = {1, 2}
    /\ mapLinks[1].lqi # mapLinks[2].lqi
    /\ routesParentOf[mapLinks[1].source].lqi = mapLinks[2].lqi

(***************************************************************************)
(* Properties of candidate generation.                                     *)
(***************************************************************************)
\* the current distance of the specification, in halves
CurrentDistanceOf(d) ==
    IF parentOf[d].parent \in DOMAIN deviceLocations
    THEN ManhattanFloor(deviceLocations[d], deviceLocations[parentOf[d].parent])
    ELSE 2 * 999

\* the nodes that the specification makes candidates of d: located routers
\* and coordinators other than d and its parent, at less than 0.7 times the
\* current distance
CandidatesOf(d) ==
    {r \in Nodes :
        /\ mapNodes[r] \in {"Router", "Coordinator"}
        /\ r \in DOMAIN deviceLocations
        /\ r # parentOf[d].parent
        /\ r # d
        /\ 10 * ManhattanFloor(deviceLocations[d], deviceLocations[r])
              < 7 * CurrentDistanceOf(d)}

\* C19: the candidate list of an analysed device holds exactly the located
\* routers, other than the device and its parent, that are closer than 0.7
\* times the current distance, each once, in ascending order of distance
C19_CandidateList ==
    raPc = "candidates" =>
        \A d \in DOMAIN candidateMap :
            LET list == candidateMap[d].potentialRouters
            IN /\ {list[i].router : i \in 1..Len(list)} = CandidatesOf(d)
               /\ Len(list) = Cardinality(CandidatesOf(d))
               /\ \A i \in 1..Len(list) :
                     list[i].distance =
                         ManhattanFloor(deviceLocations[d],
                                        deviceLocations[list[i].router])
               /\ \A i, j \in 1..Len(list) :
                     i < j => list[i].distance <= list[j].distance

(***************************************************************************)
(* Properties of pair resolution.                                          *)
(***************************************************************************)
\* the candidates of x other than y, best first
Alternatives(cm, x, y) ==
    SelectSeq(cm[x].potentialRouters, LAMBDA r : r.router # y)

\* the gain of routing x through its candidate y
GainThrough(cm, x, y) ==
    LET hit == SelectSeq(cm[x].potentialRouters, LAMBDA r : r.router = y)
    IN cm[x].currentDistance - hit[1].distance

\* the gain of x on its best candidate other than y; 0 without one
GainOnNextBest(cm, x, y) ==
    IF Alternatives(cm, x, y) = <<>> THEN 0
    ELSE cm[x].currentDistance - Alternatives(cm, x, y)[1].distance

Max3(x, y, z) ==
    IF x >= y /\ x >= z THEN x ELSE IF y >= z THEN y ELSE z

\* the total improvement of the strategy that `assigned` shows for the pair
AppliedTotal(cm, assigned, a, b) ==
    IF a \in DOMAIN assigned /\ assigned[a] = b
    THEN GainThrough(cm, a, b) + GainOnNextBest(cm, b, a)
    ELSE IF b \in DOMAIN assigned /\ assigned[b] = a
    THEN GainThrough(cm, b, a) + GainOnNextBest(cm, a, b)
    ELSE GainOnNextBest(cm, a, b) + GainOnNextBest(cm, b, a)

\* C20: when pair resolution resolves a component of two devices, the
\* strategy it applies has the largest total improvement of the three
C20_PairTakesBestStrategy ==
    [][(/\ raPc = "resolve"
        /\ components # <<>>
        /\ Len(Head(components)) = 2
        /\ components' = Tail(components))
       => LET a == Head(components)[1]
              b == Head(components)[2]
          IN AppliedTotal(candidateMap, assignedRouting', a, b) =
                Max3(GainThrough(candidateMap, a, b)
                       + GainOnNextBest(candidateMap, b, a),
                     GainThrough(candidateMap, b, a)
                       + GainOnNextBest(candidateMap, a, b),
                     GainOnNextBest(candidateMap, a, b)
                       + GainOnNextBest(candidateMap, b, a))]_vars

(***************************************************************************)
(* Properties of pair resolution: ties.                                    *)
(***************************************************************************)
\* a step that resolves a component of two devices
PairStep ==
    /\ raPc = "resolve"
    /\ components # <<>>
    /\ Len(Head(components)) = 2
    /\ components' = Tail(components)

\* the improvement of a swap as pair resolution scores it: a candidate at
\* distance 0 scores 0
ScoredGain(cm, x, y) ==
    LET hit == SelectSeq(cm[x].potentialRouters, LAMBDA r : r.router = y)
    IN IF hit[1].distance = 0 THEN 0
       ELSE cm[x].currentDistance - hit[1].distance

\* the scored totals of the three strategies for the pair (a, b)
ScoredTotals(cm, a, b) ==
    <<ScoredGain(cm, a, b) + GainOnNextBest(cm, b, a),
      ScoredGain(cm, b, a) + GainOnNextBest(cm, a, b),
      GainOnNextBest(cm, a, b) + GainOnNextBest(cm, b, a)>>

\* the strategy that `assigned` shows for the pair: 1 = a through b,
\* 2 = b through a, 3 = neither
AppliedStrategy(assigned, a, b) ==
    IF a \in DOMAIN assigned /\ assigned[a] = b THEN 1
    ELSE IF b \in DOMAIN assigned /\ assigned[b] = a THEN 2
    ELSE 3

\* x has its best candidate other than y, and no assignment without one
OnNextBest(cm, assigned, x, y) ==
    IF Alternatives(cm, x, y) = <<>> THEN x \notin DOMAIN assigned
    ELSE x \in DOMAIN assigned /\ assigned[x] = Alternatives(cm, x, y)[1].router

\* C21 as stated: when the largest total is shared by two strategies, or no
\* total is positive, neither device is routed through the other and each
\* gets its own next-best alternative
C21_AsStated ==
    [][PairStep =>
         LET a == Head(components)[1]
             b == Head(components)[2]
             t == ScoredTotals(candidateMap, a, b)
             best == Max3(t[1], t[2], t[3])
         IN (Cardinality({k \in 1..3 : t[k] = best}) > 1 \/ best <= 0) =>
               /\ AppliedStrategy(assignedRouting', a, b) = 3
               /\ OnNextBest(candidateMap, assignedRouting', a, b)
               /\ OnNextBest(candidateMap, assignedRouting', b, a)]_vars

\* C21 as amended: a tie goes to the first strategy in the order a through
\* b, b through a, neither, a swap being applied only with a positive
\* total; neither swaps when its total exceeds every maximal positive swap
\* total or no swap total is positive, and then each device gets its own
\* next-best alternative
C21_TieGoesToFirstStrategy ==
    [][PairStep =>
         LET a == Head(components)[1]
             b == Head(components)[2]
             t == ScoredTotals(candidateMap, a, b)
             applied == AppliedStrategy(assignedRouting', a, b)
         IN /\ applied = IF t[1] >= t[2] /\ t[1] >= t[3] /\ t[1] > 0 THEN 1
                         ELSE IF t[2] >= t[1] /\ t[2] >= t[3] /\ t[2] > 0
                         THEN 2 ELSE 3
            /\ applied = 3 =>
                  /\ OnNextBest(candidateMap, assignedRouting', a, b)
                  /\ OnNextBest(candidateMap, assignedRouting', b, a)]_vars

\* pair resolution has routed the first device of a tied pair through the
\* second
C21_Witness ==
    /\ raPc = "resolve"
    /\ components = <<>>
    /\ \E a, b \in Nodes :
          /\ TiedPair(candidateMap, a, b)
          /\ a \in DOMAIN assignedRouting
          /\ assignedRouting[a] = b
          /\ b \notin DOMAIN assignedRouting

(***************************************************************************)
(* Properties of the greedy resolution of larger components.               *)
(***************************************************************************)
\* a step that resolves a component of more than two devices
GreedyStep ==
    /\ raPc = "resolve"
    /\ components # <<>>
    /\ Len(Head(components)) > 2
    /\ components' = Tail(components)

\* currentDistance minus the distance of the first candidate, for every
\* candidate distance >= 0
FirstCandidateGain(cm, d) ==
    IF cm[d].potentialRouters = <<>> THEN 0
    ELSE cm[d].currentDistance - cm[d].potentialRouters[1].distance

\* the orderings of a component in which FirstCandidateGain never increases
DescendingOrders(cm, component) ==
    {order \in [1..Len(component) -> Range(component)] :
        /\ \A i, j \in 1..Len(component) : i # j => order[i] # order[j]
        /\ \A i \in 1..(Len(component) - 1) :
              FirstCandidateGain(cm, order[i])
                 >= FirstCandidateGain(cm, order[i + 1])}

\* C22: the assignments of a component of more than two devices are those
\* of processing its members in some descending order of first-candidate
\* improvement, each member taking the first candidate of its list that
\* passes the reciprocity and chain check against the assignments so far
C22_GreedyByBestImprovement ==
    [][GreedyStep =>
         \E order \in DescendingOrders(candidateMap, Head(components)) :
            assignedRouting'
               = AssignInOrder(candidateMap, assignedRouting, order)]_vars

(***************************************************************************)
(* Properties of the propagation loop.                                     *)
(***************************************************************************)
\* the loop is running: conflict resolution is over, the results are not
\* yet built
Propagating == raPc \in {"resolve", "propagate"} /\ components = <<>>

\* no device without an assignment has a candidate that passes the check
AtFixedPoint(cm, assigned) ==
    \A d \in Range(Keys(cm)) :
        d \notin DOMAIN assigned => FirstValid(cm, assigned, d) = <<>>

\* the devices of the conflict components
InComponent(cm) ==
    UNION {Range(Components(cm)[i]) : i \in 1..Len(Components(cm))}

\* C23: the propagation loop terminates from every assignment map that
\* conflict resolution leaves, with or without a cycle; a pass keeps every
\* assignment it finds; and when the loop has stopped no unassigned device
\* has a candidate that passes the cycle and reciprocity check
C23_PropagationTerminatesAtFixedPoint ==
    /\ Propagating ~> (raPc = "results")
    /\ [][Propagating =>
            \A d \in DOMAIN assignedRouting :
               /\ d \in DOMAIN assignedRouting'
               /\ assignedRouting'[d] = assignedRouting[d]]_vars
    /\ [](raPc \in {"results", "done"} =>
            AtFixedPoint(candidateMap, assignedRouting))

\* the loop has stopped after it assigned a device of no conflict
\* component, next to assignments that conflict resolution made
C23_Witness ==
    /\ raPc = "results"
    /\ \E d \in DOMAIN assignedRouting : d \notin InComponent(candidateMap)
    /\ \E d \in DOMAIN assignedRouting : d \in InComponent(candidateMap)

(***************************************************************************)
(* Properties of the result.                                               *)
(***************************************************************************)
\* how often device d is listed in the result
TimesInAnomalies(d) ==
    Cardinality({i \in 1..Len(anomalies) : anomalies[i].device = d})

TimesInOptimal(d) == Cardinality({i \in 1..Len(optimal) : optimal[i] = d})

\* a node that is no Coordinator, has a location and has a current parent
IsAnalysedDevice(n) ==
    /\ mapNodes[n] # "Coordinator"
    /\ n \in DOMAIN deviceLocations
    /\ \E i \in 1..Len(mapLinks) :
          /\ mapLinks[i].source = n
          /\ mapLinks[i].target \in Nodes

\* C24: in the result every analysed device is listed exactly once, in
\* anomalies if it has an assigned new parent and in optimal if not; a
\* device with an empty candidate list is in optimal; a Coordinator and a
\* node without location are in neither list
C24_ResultPartitionsDevices ==
    raPc = "done" =>
       \A n \in Nodes :
          IF IsAnalysedDevice(n)
          THEN /\ TimesInAnomalies(n) + TimesInOptimal(n) = 1
               /\ TimesInAnomalies(n) = 1 <=> n \in DOMAIN assignedRouting
               /\ candidateMap[n].potentialRouters = <<>> =>
                     TimesInOptimal(n) = 1
          ELSE TimesInAnomalies(n) + TimesInOptimal(n) = 0

\* a result with an anomaly and with an optimal device that had no
\* candidate, from a map with a Coordinator, a node without location and a
\* device with candidates that was left optimal
C24_Witness ==
    /\ raPc = "done"
    /\ anomalies # <<>>
    /\ \E n \in Nodes : mapNodes[n] = "Coordinator" /\ n \in DOMAIN deviceLocations
    /\ \E n \in Nodes : n \notin DOMAIN deviceLocations /\ n \in DOMAIN parentOf
    /\ \E i \in 1..Len(optimal) :
          candidateMap[optimal[i]].potentialRouters = <<>>

(***************************************************************************)
(* Devices that the greedy pass leaves without an assignment.              *)
(***************************************************************************)
\* conflict resolution has processed the component
Processed(component) ==
    /\ raPc \in {"resolve", "propagate", "results", "done"}
    /\ \A i \in 1..Len(components) : components[i] # component

\* m belongs to a processed component of more than two devices and has no
\* assignment
LeftByGreedy(m) ==
    /\ m \notin DOMAIN assignedRouting
    /\ \E i \in 1..Len(Components(candidateMap)) :
          LET component == Components(candidateMap)[i]
          IN /\ Len(component) > 2
             /\ m \in Range(component)
             /\ Processed(component)

\* C25: a member of a component of more than two devices that has no
\* assignment once its component was processed is given none by any later
\* step, and is listed as optimal in the result
C25_GreedyLeftoverStaysOptimal ==
    /\ [][\A m \in Nodes :
             LeftByGreedy(m) => m \notin DOMAIN assignedRouting']_vars
    /\ [](raPc = "done" =>
             \A m \in Nodes :
                LeftByGreedy(m) => /\ TimesInOptimal(m) = 1
                                   /\ TimesInAnomalies(m) = 0)

\* the result lists as optimal a device with candidates that the greedy
\* pass left without assignment, next to members it assigned
C25_Witness ==
    /\ raPc = "done"
    /\ \E m \in Nodes : LeftByGreedy(m) /\ TimesInOptimal(m) = 1
    /\ anomalies # <<>>

(***************************************************************************)
(* Properties of one operation: the deadline.                              *)
(***************************************************************************)
\* C26: an operation that is pending has its deadline timer armed, from its
\* start on; once that timer has fired the promise is settled; and whatever
\* open, message, error and close events arrive, the promise settles
C26_DeadlineSettles ==
    /\ [](chKind # "idle" /\ ~Settled => chTimer = "armed")
    /\ [](chTimer = "fired" => Settled)
    /\ (chKind # "idle") ~> Settled

\* the deadline of a set operation fired on an open channel after messages
\* arrived, its send timer still armed
C26_Witness ==
    /\ chKind = "setDeviceState"
    /\ chTimer = "fired"
    /\ chSendTimer = "armed"
    /\ Len(chLog) = MaxMessages
    /\ chOutcome = Resolved(<<>>)

(***************************************************************************)
(* Properties of a timed collection: what the result holds.                *)
(***************************************************************************)
\* the messages of the window that satisfied the predicate, in arrival order
Kept == SelectSeq(chLog, LAMBDA m : Collects(chKind, m))

\* the payloads that the resolved value of a collection holds: the array of
\* collect, the values of the object of collectDeviceStates
Held(value) ==
    IF chKind = "collect" THEN value
    ELSE LET topics == SelectSeq(<<DeviceTopic>>, LAMBDA t : t \in DOMAIN value)
         IN [i \in 1..Len(topics) |-> value[topics[i]]]

LastKept(t) ==
    LET hits == SelectSeq(Kept, LAMBDA m : m.topic = t)
    IN hits[Len(hits)]

TimesChildOf(p, c) ==
    IF p \notin DOMAIN routesChildrenOf THEN 0
    ELSE Cardinality({i \in 1..Len(routesChildrenOf[p]) :
                         routesChildrenOf[p][i].child = c})

\* C28: in the graph of network:routes a node c is listed among the
\* children of p exactly once if p is the parent of c, and not at all
\* otherwise
C28_ChildrenMirrorParents ==
    routesPc = "built" =>
        \A p, c \in Nodes :
            TimesChildOf(p, c)
               = IF c \in DOMAIN routesParentOf /\ routesParentOf[c].parent = p
                 THEN 1 ELSE 0

(***************************************************************************)
(* Properties of the result: the options reported for an anomaly.          *)
(***************************************************************************)
\* C29: the parent that the optimizer assigned to a device reported in
\* anomalies is one of the routers of its betterOptions
C29_AssignedParentAmongOptions ==
    raPc = "done" =>
        \A i \in 1..Len(anomalies) :
            \E j \in 1..Len(anomalies[i].betterOptions) :
                anomalies[i].betterOptions[j].router
                   = assignedRouting[anomalies[i].device]

(***************************************************************************)
(* Properties of setDeviceState and setGroupState.                         *)
(***************************************************************************)
\* C30: a set operation whose promise resolved has sent its '<name>/set'
\* message on the opened channel; on a channel that never opened it has
\* not resolved
C30_ResolvedOnlyIfSent ==
    (chKind \in SetKinds /\ chOutcome.status = "resolved") => chSent

====
